---- MODULE Spec2Model ----
(***************************************************************************)
(* Model of crates/sozo/ops/src/migrate/mod.rs: the migration engine that  *)
(* reconciles a local world declaration against the remote world.          *)
(*                                                                         *)
(* The state is the configuration of a run, the remote world, the diff the *)
(* run was created with, the position of `migrate` in its five steps, the  *)
(* pending call batch, the flags each step returns and the log of remote   *)
(* operations issued so far.                                               *)
(***************************************************************************)
EXTENDS Integers, Sequences, FiniteSets, TLC

VARIABLES
    cfg,        \* profile_config / guest / accounts of the Migration
    remote,     \* the remote world (classes declared, resources, grants)
    diff,       \* self.diff: computed once when the Migration is created
    pc,         \* position of migrate()
    invoker,    \* calls held by the step's Invoker across a suspension point
    changed,    \* the *_have_changed / *_has_changed results of the steps
    log,        \* remote operations issued by the current run, in order
    faults,     \* number of failures injected by the environment so far
    cause,      \* why the current run failed ("none" if it has not)
    result,     \* MigrationResult.has_changes of the current run, once returned
    run,        \* index of the current run
    start,      \* the remote world when the current run began
    history     \* one record per earlier run

vars == <<cfg, remote, diff, pc, invoker, changed, log, faults, cause, result, run, start,
          history>>

----------------------------------------------------------------------------
(* Bounds of the model *)

\* number of alternative (predeployed) accounts get_accounts may return
MaxAccounts == 2
\* number of failures the environment may inject over a behaviour
MaxFaults == 1
\* number of successive migrate runs (each on a freshly recomputed diff)
MaxRuns == 2

----------------------------------------------------------------------------
(* The resources a local declaration may hold: a namespace, two contracts, *)
(* a model, a library, an event. A run declares some of them (cfg.local).  *)

Res == {"ns", "c1", "c2", "m1", "l1", "e1"}

Kind(r) ==
    CASE r = "ns" -> "Namespace"
      [] r \in {"c1", "c2"} -> "Contract"
      [] r = "m1" -> "Model"
      [] r = "l1" -> "Library"
      [] r = "e1" -> "Event"

Namespace(r) == "ns"

\* resource.tag(): the name for a namespace, "<namespace>-<name>" otherwise
Tag(r) ==
    CASE r = "ns" -> "ns"
      [] r = "c1" -> "ns-c1"
      [] r = "c2" -> "ns-c2"
      [] r = "m1" -> "ns-m1"
      [] r = "l1" -> "ns-l1"
      [] r = "e1" -> "ns-e1"

\* class hash of the artifact compiled from the code of a resource
ArtifactClass(r) ==
    CASE r = "ns" -> "none"
      [] r = "c1" -> "hC1"
      [] r = "c2" -> "hC2"
      [] r = "m1" -> "hM1"
      [] r = "l1" -> "hL1"
      [] r = "e1" -> "hE1"

\* class hash of the local artifact of a resource: the same for the two
\* contracts when the declaration compiles them from the same code
LocalClass(r) ==
    IF cfg.shared /\ r = "c2" THEN ArtifactClass("c1") ELSE ArtifactClass(r)

\* library.version of a local library
Version(r) == "v1"

\* class hash found remotely for a resource registered with an older artifact
OldClass == "hOld"

WorldClass == "hWorld"

\* external contracts (not managed by the world) and their classes
Ext == {"x1"}
ExtClass(x) == "hX"
ExtClasses == {ExtClass(x) : x \in Ext}

\* permissions declared locally: <<resource, grantee>>
LocalWriters == {<<"m1", "c1">>}
LocalOwners == {<<"m1", "c2">>, <<"ns", "c2">>}
\* grants that may exist remotely without being declared locally
ForeignWriters == {<<"m1", "c2">>}

\* signing identities: the migrator account of the world, and the i-th alternative account
Primary == 0
\* every declarer signing with the first alternative account
AccountShared(i) == 1
Account(i) == i

StepNames == <<"ensure_world", "sync_resources", "sync_permissions",
               "initialize_contracts", "sync_external_contracts">>

----------------------------------------------------------------------------
(* Sequence helpers *)

\* all orderings of a finite set: the iteration orders of a HashMap/HashSet
RECURSIVE Perms(_)
Perms(S) ==
    IF S = {} THEN {<<>>}
    ELSE UNION {{<<x>> \o p : p \in Perms(S \ {x})} : x \in S}

RECURSIVE Flatten(_)
Flatten(ss) == IF ss = <<>> THEN <<>> ELSE Head(ss) \o Flatten(Tail(ss))

\* position of the first occurrence of x in s, 0 if absent
RECURSIVE PositionFrom(_, _, _)
PositionFrom(s, x, i) ==
    IF i > Len(s) THEN 0 ELSE IF s[i] = x THEN i ELSE PositionFrom(s, x, i + 1)

Position(s, x) == PositionFrom(s, x, 1)

\* the elements of a finite set of integers, ascending
RECURSIVE SortedAsc(_)
SortedAsc(S) ==
    IF S = {} THEN <<>>
    ELSE LET m == CHOOSE x \in S : \A y \in S : x <= y
         IN <<m>> \o SortedAsc(S \ {m})

\* the elements of a finite set of integers, descending
RECURSIVE SortedDesc(_)
SortedDesc(S) ==
    IF S = {} THEN <<>>
    ELSE LET m == CHOOSE x \in S : \A y \in S : x >= y
         IN <<m>> \o SortedDesc(S \ {m})

----------------------------------------------------------------------------
(* Calls and the remote world *)

MkCall(fn, target, class, data) ==
    [fn |-> fn, target |-> target, class |-> class, data |-> data]

RegisterFns == {"register_contract", "register_model", "register_event", "register_library"}
UpgradeFns == {"upgrade_contract", "upgrade_model", "upgrade_event"}
GrantFns == {"grant_writer", "grant_owner"}

\* calls that reference a class that must have been declared
ReferencesClass(c) ==
    c.fn \in RegisterFns \cup UpgradeFns \cup {"deploy_world", "upgrade_world", "deploy_external"}

AbsentResource == [present |-> FALSE, class |-> "none", init |-> FALSE]

\* why the remote target rejects a call, "ok" if it accepts it
Check(rem, c) ==
    CASE c.fn = "deploy_world" ->
            IF c.class \notin rem.declared THEN "undeclared"
            ELSE IF rem.world # "none" THEN "already_done" ELSE "ok"
      [] c.fn = "deploy_external" ->
            IF c.class \notin rem.declared THEN "undeclared"
            ELSE IF c.target \in rem.deployed THEN "already_done" ELSE "ok"
      [] rem.world = "none" -> "no_world"
      [] c.fn = "upgrade_world" ->
            IF c.class \notin rem.declared THEN "undeclared" ELSE "ok"
      [] c.fn = "register_namespace" ->
            IF rem.res[c.target].present THEN "already_done" ELSE "ok"
      [] c.fn \in RegisterFns ->
            IF rem.res[c.target].present THEN "already_done"
            ELSE IF ~rem.res[Namespace(c.target)].present THEN "no_namespace"
            ELSE IF c.class \notin rem.declared THEN "undeclared" ELSE "ok"
      [] c.fn \in UpgradeFns ->
            IF ~rem.res[c.target].present THEN "no_resource"
            ELSE IF c.class \notin rem.declared THEN "undeclared" ELSE "ok"
      [] c.fn \in GrantFns ->
            IF ~rem.res[c.target].present THEN "no_resource" ELSE "ok"
      [] c.fn = "init_contract" ->
            IF ~rem.res[c.target].present THEN "no_resource"
            ELSE IF rem.res[c.target].init THEN "already_done" ELSE "ok"

\* the remote world after an accepted call
Effect(rem, c) ==
    CASE c.fn \in {"deploy_world", "upgrade_world"} -> [rem EXCEPT !.world = "cur"]
      [] c.fn = "deploy_external" -> [rem EXCEPT !.deployed = @ \cup {c.target}]
      [] c.fn = "register_namespace" ->
            [rem EXCEPT !.res[c.target] = [present |-> TRUE, class |-> "none", init |-> FALSE]]
      [] c.fn \in RegisterFns ->
            [rem EXCEPT !.res[c.target] = [present |-> TRUE, class |-> c.class, init |-> FALSE]]
      [] c.fn \in UpgradeFns -> [rem EXCEPT !.res[c.target].class = c.class]
      [] c.fn = "grant_writer" -> [rem EXCEPT !.writers = @ \cup {<<c.target, c.data>>}]
      [] c.fn = "grant_owner" -> [rem EXCEPT !.owners = @ \cup {<<c.target, c.data>>}]
      [] c.fn = "init_contract" -> [rem EXCEPT !.res[c.target].init = TRUE]

\* An entry of the log. An entry of an Invoker or Deployer is one transaction
\* carrying `calls`; an entry of a Declarer stands for its declare_all: one
\* declare transaction for each class of `classes`, and the failed one if ~ok.
\* `why` is the error of the operation, "none" if it was accepted.
Entry(step, op, signer, why, calls, classes) ==
    [step |-> step, op |-> op, signer |-> signer, ok |-> why = "none", error |-> why,
     calls |-> calls, classes |-> classes]

----------------------------------------------------------------------------
(* Invoker: multicall and invoke_all_sequentially *)

\* a multicall is one transaction: every call is accepted, or none is applied
RECURSIVE ApplyAll(_, _)
ApplyAll(calls, rem) ==
    IF calls = <<>> THEN [remote |-> rem, cause |-> "none"]
    ELSE LET why == Check(rem, Head(calls))
         IN IF why # "ok" THEN [remote |-> rem, cause |-> why]
            ELSE ApplyAll(Tail(calls), Effect(rem, Head(calls)))

\* one transaction of the migrator account carrying `calls`;
\* `stop` is the index of the call the environment makes fail (0: none)
Transaction(step, op, calls, rem, stop) ==
    IF stop # 0
    THEN [remote |-> rem, cause |-> "fault",
          entries |-> <<Entry(step, op, Primary, "fault", calls, {})>>]
    ELSE LET r == ApplyAll(calls, rem)
         IN IF r.cause # "none"
            THEN [remote |-> rem, cause |-> r.cause,
                  entries |-> <<Entry(step, op, Primary, r.cause, calls, {})>>]
            ELSE [remote |-> r.remote, cause |-> "none",
                  entries |-> <<Entry(step, op, Primary, "none", calls, {})>>]

\* Invoker::multicall: nothing is sent when there is no call
Multicall(step, calls, rem, stop) ==
    IF calls = <<>> THEN [remote |-> rem, cause |-> "none", entries |-> <<>>]
    ELSE Transaction(step, "multicall", calls, rem, stop)

\* one transaction per call, stopping at the first one that fails
RECURSIVE InvokeFrom(_, _, _, _, _)
InvokeFrom(step, calls, rem, i, stop) ==
    IF i > Len(calls) THEN [remote |-> rem, cause |-> "none", entries |-> <<>>]
    ELSE LET c == calls[i]
             why == IF i = stop THEN "fault" ELSE Check(rem, c)
         IN IF why # "ok"
            THEN [remote |-> rem, cause |-> why,
                  entries |-> <<Entry(step, "invoke", Primary, why, <<c>>, {})>>]
            ELSE LET rest == InvokeFrom(step, calls, Effect(rem, c), i + 1, stop)
                 IN [rest EXCEPT !.entries = <<Entry(step, "invoke", Primary, "none", <<c>>, {})>> \o @]

InvokeAllSequentially(step, calls, rem, stop) == InvokeFrom(step, calls, rem, 1, stop)

----------------------------------------------------------------------------
(* Declarer: declare and declare_all *)

\* Declares the classes of `cs` in order. A class already declared remotely
\* is not an error. `at` is the index of the class whose declaration fails
\* (0: none), with error `kind`: "raced" when another actor declared the class
\* in between ("Class already declared"), "fault" otherwise.
RECURSIVE DeclareFrom(_, _, _, _, _)
DeclareFrom(cs, rem, i, at, kind) ==
    IF i > Len(cs) THEN [remote |-> rem, cause |-> "none", published |-> {}]
    ELSE IF cs[i] \in rem.declared THEN DeclareFrom(cs, rem, i + 1, at, kind)
    ELSE IF i = at
         THEN [remote |-> IF kind = "raced"
                          THEN [rem EXCEPT !.declared = @ \cup {cs[i]}] ELSE rem,
               cause |-> IF kind = "raced" THEN "already_declared" ELSE "fault",
               published |-> {}]
    ELSE LET rest == DeclareFrom(cs, [rem EXCEPT !.declared = @ \cup {cs[i]}], i + 1, at, kind)
         IN [rest EXCEPT !.published = @ \cup {cs[i]}]

\* Declarer::declare_all under `signer`
DeclareAll(step, signer, cs, rem, at, kind) ==
    LET r == DeclareFrom(cs, rem, 1, at, kind)
    IN [remote |-> r.remote, cause |-> r.cause,
        entries |-> IF r.published = {} /\ r.cause = "none" THEN <<>>
                    ELSE <<Entry(step, "declare", signer, r.cause, <<>>, r.published)>>]

\* the failures the environment may inject in one declarer
FailSpecs(cs, rem, budget) ==
    {[at |-> 0, kind |-> "fault"]}
    \cup IF budget <= 0 THEN {}
         ELSE {[at |-> i, kind |-> k] :
                 i \in {j \in DOMAIN cs : cs[j] \notin rem.declared}, k \in {"raced", "fault"}}

----------------------------------------------------------------------------
(* WorldDiff: computed from the local declaration and the remote world     *)

WorldStatus(rem) ==
    CASE rem.world = "none" -> "NotDeployed"
      [] rem.world = "old" -> "NewVersion"
      [] rem.world = "cur" -> "Synced"

ResourceStatus(rem, r) ==
    IF ~rem.res[r].present THEN "Created"
    ELSE IF Kind(r) # "Namespace" /\ rem.res[r].class # LocalClass(r) THEN "Updated"
    ELSE "Synced"

\* the resources the local declaration of the run holds
Local == cfg.local

\* the grants the local declaration holds: those on its resources
DeclaredWriters == {p \in LocalWriters : p[1] \in Local}
DeclaredOwners == {p \in LocalOwners : p[1] \in Local}

ComputeDiff(rem) ==
    [world |-> WorldStatus(rem),
     res |-> [r \in Local |-> [status |-> ResourceStatus(rem, r),
                               is_initialized |-> rem.res[r].init]],
     writers |-> [local |-> DeclaredWriters \ rem.writers,
                  synced |-> DeclaredWriters \cap rem.writers,
                  remote |-> rem.writers \ DeclaredWriters],
     owners |-> [local |-> DeclaredOwners \ rem.owners,
                 synced |-> DeclaredOwners \cap rem.owners,
                 remote |-> rem.owners \ DeclaredOwners],
     ext_classes |-> [h \in ExtClasses |-> IF h \in rem.declared THEN "Synced" ELSE "Created"],
     ext |-> [x \in Ext |-> IF x \in rem.deployed THEN "Synced" ELSE "Created"]]

\* diff.namespaces
Namespaces == {r \in Res : Kind(r) = "Namespace"}

\* diff.is_synced()
IsSynced(d) == \A r \in DOMAIN d.res : d.res[r].status = "Synced"

\* diff.get_writers(selector).only_local() / diff.get_owners(selector).only_local()
OnlyLocalWriters(d, r) == {p[2] : p \in {q \in d.writers.local : q[1] = r}}
OnlyLocalOwners(d, r) == {p[2] : p \in {q \in d.owners.local : q[1] = r}}

\* profile_config.is_skipped(tag)
IsSkipped(c, tag) == tag \in c.skip

\* do_multicall(): enabled unless the configuration disables it
DoMulticall(c) == ~c.disable_multicall

----------------------------------------------------------------------------
(* sync_resources: collecting the calls and the classes *)

\* namespaces_getcalls, over the namespaces in iteration order `nss`
RECURSIVE NamespacesGetcalls(_, _)
NamespacesGetcalls(d, nss) ==
    IF nss = <<>> THEN <<>>
    ELSE (IF d.res[Head(nss)].status = "Created"
          THEN <<MkCall("register_namespace", Head(nss), "none", "none")>> ELSE <<>>)
         \o NamespacesGetcalls(d, Tail(nss))

\* the match of *_calls_classes without the Updated arm
KindCallsClassesCreatedOnly(d, r, register, upgrade) ==
    IF d.res[r].status = "Created"
    THEN [calls |-> <<MkCall(register, r, LocalClass(r), "none")>>, classes |-> {LocalClass(r)}]
    ELSE [calls |-> <<>>, classes |-> {}]

\* contracts_calls_classes / models_calls_classes / events_calls_classes:
\* <<calls, classes>> of one resource of kind Contract, Model or Event
KindCallsClasses(d, r, register, upgrade) ==
    CASE d.res[r].status = "Created" ->
            [calls |-> <<MkCall(register, r, LocalClass(r), "none")>>, classes |-> {LocalClass(r)}]
      [] d.res[r].status = "Updated" ->
            [calls |-> <<MkCall(upgrade, r, LocalClass(r), "none")>>, classes |-> {LocalClass(r)}]
      [] OTHER -> [calls |-> <<>>, classes |-> {}]

ContractsCallsClasses(d, r) == KindCallsClasses(d, r, "register_contract", "upgrade_contract")
ModelsCallsClasses(d, r) == KindCallsClasses(d, r, "register_model", "upgrade_model")
EventsCallsClasses(d, r) == KindCallsClasses(d, r, "register_event", "upgrade_event")

\* libraries_calls_classes: a Created library is registered with its version
LibrariesCallsClasses(d, r) ==
    IF d.res[r].status = "Created"
    THEN [calls |-> <<MkCall("register_library", r, LocalClass(r), Version(r))>>,
          classes |-> {LocalClass(r)}]
    ELSE [calls |-> <<>>, classes |-> {}]

\* libraries_calls_classes ignoring an Updated library
LibraryNeverPanics(d, r) == FALSE

\* libraries_calls_classes panics: "libraries cannot be updated!"
LibraryPanics(d, r) == Kind(r) = "Library" /\ d.res[r].status = "Updated"

\* the body of the loop of sync_resources without the is_skipped check
ResourceCallsClassesUnskipped(c, d, r) ==
    CASE Kind(r) = "Contract" -> ContractsCallsClasses(d, r)
      [] Kind(r) = "Library" -> LibrariesCallsClasses(d, r)
      [] Kind(r) = "Model" -> ModelsCallsClasses(d, r)
      [] Kind(r) = "Event" -> EventsCallsClasses(d, r)
      [] OTHER -> [calls |-> <<>>, classes |-> {}]

\* the body of the loop of sync_resources for one resource
ResourceCallsClasses(c, d, r) ==
    IF IsSkipped(c, Tag(r)) THEN [calls |-> <<>>, classes |-> {}]
    ELSE CASE Kind(r) = "Contract" -> ContractsCallsClasses(d, r)
           [] Kind(r) = "Library" -> LibrariesCallsClasses(d, r)
           [] Kind(r) = "Model" -> ModelsCallsClasses(d, r)
           [] Kind(r) = "Event" -> EventsCallsClasses(d, r)
           [] OTHER -> [calls |-> <<>>, classes |-> {}]

\* sync_resources collecting the namespace calls after the resource calls
SyncResourcesCallsNamespacesLast(c, d, nss, ord) ==
    Flatten([i \in DOMAIN ord |-> ResourceCallsClasses(c, d, ord[i]).calls])
    \o NamespacesGetcalls(d, nss)

\* the resources on which the loop of sync_resources panics
SyncResourcesPanics(c, d) ==
    {r \in DOMAIN d.res : ~IsSkipped(c, Tag(r)) /\ LibraryPanics(d, r)}

\* the calls of the invoker of sync_resources: namespaces first, then the
\* resources in the iteration order `ord` of diff.resources
SyncResourcesCalls(c, d, nss, ord) ==
    NamespacesGetcalls(d, nss)
    \o Flatten([i \in DOMAIN ord |-> ResourceCallsClasses(c, d, ord[i]).calls])

\* the classes map holding one entry for each artifact inserted
InsertClassAlways(m, h) == Append(m, h)

\* HashMap::insert on the classes map, its keys held as a sequence: the
\* entry of a class hash the map already holds is replaced
InsertClass(m, h) == IF \E i \in DOMAIN m : m[i] = h THEN m ELSE Append(m, h)

\* the keys of the classes map after the loop of sync_resources over the
\* resources in iteration order `ord`
SyncResourcesClassMap(c, d, ord) ==
    LET F[i \in 0..Len(ord)] ==
            IF i = 0 THEN <<>>
            ELSE LET cl == ResourceCallsClasses(c, d, ord[i]).classes
                 IN IF cl = {} THEN F[i - 1] ELSE InsertClass(F[i - 1], CHOOSE h \in cl : TRUE)
    IN F[Len(ord)]

\* classes.into_iter(): the entries of the map in any order
ClassOrders(m) == {[i \in DOMAIN m |-> m[p[i]]] : p \in Perms(DOMAIN m)}

\* the classes map of sync_resources, keyed by class hash
SyncResourcesClasses(c, d) ==
    UNION {ResourceCallsClasses(c, d, r).classes : r \in DOMAIN d.res}

----------------------------------------------------------------------------
(* sync_permissions *)

\* a set of grantees in the order the diff lists them
RECURSIVE GranteeSeq(_)
GranteeSeq(S) ==
    IF S = {} THEN <<>>
    ELSE LET g == CHOOSE x \in S : TRUE IN <<g>> \o GranteeSeq(S \ {g})

GrantCalls(fn, r, grantees) ==
    LET gs == GranteeSeq(grantees) IN [i \in DOMAIN gs |-> MkCall(fn, r, "none", gs[i])]

\* the body of the loop of sync_permissions granting the synced deltas again
ResourcePermissionCallsRegranting(c, d, r) ==
    IF IsSkipped(c, Tag(r)) THEN <<>>
    ELSE GrantCalls("grant_writer", r,
                    {p[2] : p \in {q \in d.writers.local \cup d.writers.synced : q[1] = r}})
         \o GrantCalls("grant_owner", r,
                       {p[2] : p \in {q \in d.owners.local \cup d.owners.synced : q[1] = r}})

\* the body of the loop of sync_permissions without the owners
ResourcePermissionCallsWritersOnly(c, d, r) ==
    IF IsSkipped(c, Tag(r)) THEN <<>>
    ELSE GrantCalls("grant_writer", r, OnlyLocalWriters(d, r))

\* the body of the loop of sync_permissions granting the owners first
ResourcePermissionCallsOwnersFirst(c, d, r) ==
    IF IsSkipped(c, Tag(r)) THEN <<>>
    ELSE GrantCalls("grant_owner", r, OnlyLocalOwners(d, r))
         \o GrantCalls("grant_writer", r, OnlyLocalWriters(d, r))

\* the body of the loop of sync_permissions for one resource
ResourcePermissionCalls(c, d, r) ==
    IF IsSkipped(c, Tag(r)) THEN <<>>
    ELSE GrantCalls("grant_writer", r, OnlyLocalWriters(d, r))
         \o GrantCalls("grant_owner", r, OnlyLocalOwners(d, r))

SyncPermissionsCalls(c, d, ord) ==
    Flatten([i \in DOMAIN ord |-> ResourcePermissionCalls(c, d, ord[i])])

----------------------------------------------------------------------------
(* initialize_contracts *)

\* profile_config.init_call_args: raw arguments per tag ("none": no entry)
InitCallArgs(tag) ==
    IF tag \in DOMAIN cfg.init_call_args THEN cfg.init_call_args[tag] ELSE "none"

\* a raw entry decode_calldata rejects
Malformed == "zz"

\* decode_calldata: the decoded list, or "error"
DecodeCalldata(raw) == IF raw = Malformed THEN "error" ELSE "[" \o raw \o "]"

\* the configured entry ignored
InitArgsEmpty(tag) == "[]"

\* decode_calldata of the configured entry; no entry gives the empty list
InitArgs(tag) == IF InitCallArgs(tag) = "none" THEN "[]" ELSE DecodeCalldata(InitCallArgs(tag))

\* do_init ignoring is_initialized
DoInitAlways(d, r) == TRUE

\* do_init for Created contracts only
DoInitCreatedOnly(d, r) == d.res[r].status = "Created"

\* do_init of the match on the resource diff
DoInit(d, r) ==
    CASE d.res[r].status = "Created" -> TRUE
      [] d.res[r].status \in {"Updated", "Synced"} -> ~d.res[r].is_initialized

\* the resources for which the loop of initialize_contracts builds an init call
InitEligible(c, d) ==
    {r \in DOMAIN d.res : Kind(r) = "Contract" /\ ~IsSkipped(c, Tag(r)) /\ DoInit(d, r)}

InitContractGetcall(r) == MkCall("init_contract", r, "none", InitArgs(Tag(r)))

\* the contracts whose init arguments decode_calldata rejects, before do_init
\* is looked at
InitArgsErrorsAnyContract(c, d) ==
    {r \in DOMAIN d.res : Kind(r) = "Contract" /\ InitArgs(Tag(r)) = "error"}

\* the contracts for which the loop returns MigrationError::InitCallArgs
InitArgsErrors(c, d) == {r \in InitEligible(c, d) : InitArgs(Tag(r)) = "error"}

\* ordered_init_tags.iter().position(|t| *t == tag): 0 stands for None
OrderIndex(c, r) == Position(c.order_inits, Tag(r))

\* the keys of ordered_init_calls
OrderedInitKeys(c, d) == {OrderIndex(c, r) : r \in InitEligible(c, d)} \ {0}

\* ordered_init_calls.get(k)
OrderedInitCall(c, d, k) ==
    InitContractGetcall(CHOOSE r \in InitEligible(c, d) : OrderIndex(c, r) = k)

\* ordered_keys sorted the wrong way round
OrderedKeysDescending(c, d) == SortedDesc(OrderedInitKeys(c, d))

\* ordered_keys after the sort
OrderedKeys(c, d) == SortedAsc(OrderedInitKeys(c, d))

\* ordered_calls
OrderedCalls(c, d) ==
    LET ks == OrderedKeys(c, d) IN [i \in DOMAIN ks |-> OrderedInitCall(c, d, ks[i])]

\* the calls added to the invoker inside the loop, in iteration order `ord`
UnorderedInitCalls(c, d, ord) ==
    Flatten([i \in DOMAIN ord |->
                IF ord[i] \in InitEligible(c, d) /\ OrderIndex(c, ord[i]) = 0
                THEN <<InitContractGetcall(ord[i])>> ELSE <<>>])

\* Invoker::extends_ordered: the ordered calls are appended to the calls
ExtendsOrdered(calls, ordered) == calls \o ordered

\* the ordered calls put in front of the calls of the loop
InitializeContractsCallsOrderedFirst(c, d, ord) ==
    OrderedCalls(c, d) \o UnorderedInitCalls(c, d, ord)

InitializeContractsCalls(c, d, ord) ==
    IF OrderedInitKeys(c, d) # {}
    THEN ExtendsOrdered(UnorderedInitCalls(c, d, ord), OrderedCalls(c, d))
    ELSE UnorderedInitCalls(c, d, ord)

----------------------------------------------------------------------------
(* sync_external_contracts *)

\* the classes kept by the filter_map over external_contract_classes
ExternalContractClasses(d) == {h \in ExtClasses : d.ext_classes[h] = "Created"}

\* deploy_via_udc_getcall: no call when the address is already deployed
DeployViaUdcGetcall(rem, x) ==
    IF x \in rem.deployed THEN <<>>
    ELSE <<MkCall("deploy_external", x, ExtClass(x), "raw_constructor_data")>>

\* sync_external_contracts adding no deployment call
SyncExternalCallsNone(d, rem, ord) == <<>>

SyncExternalCalls(d, rem, ord) ==
    Flatten([i \in DOMAIN ord |->
                IF d.ext[ord[i]] = "Created" THEN DeployViaUdcGetcall(rem, ord[i]) ELSE <<>>])

----------------------------------------------------------------------------
(* declare_classes *)

\* every class given to the first declarer
ShardIndicesFirst(len, n, i) == IF i = 1 THEN 1..len ELSE {}

\* the classes given to declarer `i` of `n`: the idx-th class goes to idx % n
ShardIndices(len, n, i) == {idx \in 1..len : ((idx - 1) % n) + 1 = i}

Shard(cs, n, i) ==
    LET ix == SortedAsc(ShardIndices(Len(cs), n, i)) IN [k \in DOMAIN ix |-> cs[ix[k]]]

\* the fold propagating every error of a declarer
ToleratedNever(why) == why = "none"

\* whether the fold over the declarers' results lets the error pass
Tolerated(why) == why \in {"none", "already_declared"}

\* the declarers run one after the other up to the first one that fails
RECURSIVE RunDeclarersFailFast(_, _, _, _, _, _)
RunDeclarersFailFast(step, cs, rem, n, i, fs) ==
    IF i > n THEN [remote |-> rem, cause |-> "none", entries |-> <<>>]
    ELSE LET r == DeclareAll(step, Account(i), Shard(cs, n, i), rem, fs[i].at, fs[i].kind)
         IN IF ~Tolerated(r.cause)
            THEN [remote |-> r.remote, cause |-> "declare_error", entries |-> r.entries]
            ELSE LET rest == RunDeclarersFailFast(step, cs, r.remote, n, i + 1, fs)
                 IN [remote |-> rest.remote, cause |-> rest.cause,
                     entries |-> r.entries \o rest.entries]

\* the declarers 1..n run to completion; `fs[i]` is the failure injected in
\* declarer i. The effects of the declarers are independent: their classes
\* are disjoint.
RECURSIVE RunDeclarers(_, _, _, _, _, _)
RunDeclarers(step, cs, rem, n, i, fs) ==
    IF i > n THEN [remote |-> rem, cause |-> "none", entries |-> <<>>]
    ELSE LET r == DeclareAll(step, Account(i), Shard(cs, n, i), rem, fs[i].at, fs[i].kind)
             rest == RunDeclarers(step, cs, r.remote, n, i + 1, fs)
         IN [remote |-> rest.remote,
             cause |-> IF ~Tolerated(r.cause) THEN "declare_error" ELSE rest.cause,
             entries |-> r.entries \o rest.entries]

\* declare_classes over the classes in iteration order `cs`, with `n`
\* alternative accounts
DeclareClasses(step, cs, rem, n, fs) ==
    IF n = 0
    THEN DeclareAll(step, Primary, cs, rem, fs[1].at, fs[1].kind)
    ELSE RunDeclarers(step, cs, rem, n, 1, fs)

\* the failures the environment may inject in the declarers of one call
DeclareFailures(cs, rem, n, budget) ==
    LET m == IF n = 0 THEN 1 ELSE n
        shard(i) == IF n = 0 THEN cs ELSE Shard(cs, n, i)
        all == UNION {FailSpecs(shard(i), rem, budget) : i \in 1..m}
    IN {fs \in [1..m -> all] :
          /\ \A i \in 1..m : fs[i] \in FailSpecs(shard(i), rem, budget)
          /\ Cardinality({i \in 1..m : fs[i].at # 0}) <= budget}

NumFailures(fs) == Cardinality({i \in DOMAIN fs : fs[i].at # 0})

----------------------------------------------------------------------------------------------------------------------------------------
(* Initial states: a configuration and a remote world *)

Registered(class, init) == [present |-> TRUE, class |-> class, init |-> init]

\* what may be found remotely for each resource before the first run
RemoteResourceStates(r) ==
    CASE r = "ns" -> {AbsentResource, Registered("none", FALSE)}
      [] r = "c1" -> {AbsentResource, Registered(OldClass, FALSE),
                      Registered(ArtifactClass(r), FALSE), Registered(ArtifactClass(r), TRUE)}
      [] r = "c2" -> {AbsentResource, Registered(OldClass, TRUE), Registered(ArtifactClass(r), TRUE)}
      [] r = "m1" -> {AbsentResource, Registered(OldClass, FALSE), Registered(ArtifactClass(r), FALSE)}
      [] r = "l1" -> {AbsentResource, Registered(OldClass, FALSE), Registered(ArtifactClass(r), FALSE)}
      [] r = "e1" -> {AbsentResource, Registered(OldClass, FALSE), Registered(ArtifactClass(r), FALSE)}

\* a resource is registered only in a deployed world and a registered namespace
RemoteResources(world) ==
    {f \in [Res -> UNION {RemoteResourceStates(r) : r \in Res}] :
        /\ \A r \in Res : f[r] \in RemoteResourceStates(r)
        /\ \A r \in Res : f[r].present => world # "none" /\ f[Namespace(r)].present}

\* the local declarations of the scenarios
DefaultLocal == {"ns", "c1", "c2", "m1"}
LibraryLocal == {"ns", "c1", "l1", "e1"}

\* the remote worlds that hold nothing but resources of `local`
RemoteResourcesOf(local) ==
    {[r \in Res |-> IF r \in local THEN g[r] ELSE AbsentResource] :
        g \in {h \in [local -> UNION {RemoteResourceStates(r) : r \in local}] :
                 /\ \A r \in local : h[r] \in RemoteResourceStates(r)
                 /\ \A r \in local : h[r].present => h[Namespace(r)].present}}

NothingRegistered == [r \in Res |-> AbsentResource]

\* the remote world that matches the local declaration `local`
SyncedWith(local) ==
    [r \in Res |-> IF r \in local THEN Registered(ArtifactClass(r), Kind(r) = "Contract")
                   ELSE AbsentResource]

AllSynced == SyncedWith(DefaultLocal)

\* the remote world with these parts; the classes of what exists are declared
MkRemote(world, res, writers, owners, deployed) ==
    [world |-> world, res |-> res, deployed |-> deployed,
     writers |-> {p \in writers : res[p[1]].present},
     owners |-> {p \in owners : res[p[1]].present},
     declared |-> {res[r].class : r \in {q \in Res : res[q].present /\ Kind(q) # "Namespace"}}
                  \cup (IF world = "cur" THEN {WorldClass} ELSE {})
                  \cup {ExtClass(x) : x \in deployed}]

DefaultConfig ==
    [skip |-> {}, order_inits |-> <<>>, disable_multicall |-> FALSE, guest |-> FALSE,
     accounts |-> 0, local |-> DefaultLocal, init_call_args |-> ("ns-c1" :> "0x1"),
     shared |-> FALSE]

\* init_call_args with a malformed entry
MalformedArgs ==
    {("ns-c1" :> Malformed), ("ns-c2" :> Malformed),
     ("ns-c1" :> "0x1") @@ ("ns-c2" :> Malformed)}

SkipLists == {{}, {"ns-c1"}, {"ns-m1"}, {"ns"}, {"ns", "ns-c1"}}
OrderLists == {<<>>, <<"ns-c2", "ns-m1", "ns-c1">>}
\* an order list that names one of the two contracts, after a tag that is not
\* the tag of a contract
PartialOrderList == <<"ns-m1", "ns-c2">>

\* The initial states are drawn from families of scenarios, each varying some
\* of the inputs around a deployed, partly migrated world.

\* every state of the namespace and the contracts, with and without
\* multicall and alternative accounts
ResourceScenarios ==
    {[cfg |-> [DefaultConfig EXCEPT !.disable_multicall = dm, !.accounts = n],
      remote |-> MkRemote("cur", f, {}, {}, Ext)] :
        dm \in BOOLEAN, n \in {0, MaxAccounts},
        f \in {g \in RemoteResourcesOf(DefaultLocal) :
                 g["m1"] \in {AbsentResource, AllSynced["m1"]}}}

\* every state of the world and of the external contracts, guest or not:
\* nothing is registered in a world that is not deployed
WorldScenarios ==
    {[cfg |-> [DefaultConfig EXCEPT !.guest = g, !.accounts = n],
      remote |-> MkRemote(w, IF w = "none" THEN NothingRegistered ELSE AllSynced, {}, {}, dep)] :
        g \in BOOLEAN, n \in {0, MaxAccounts}, w \in {"none", "old", "cur"}, dep \in SUBSET Ext}

\* every skip list and order list, on every state of the contracts
SkipOrderScenarios ==
    {[cfg |-> [DefaultConfig EXCEPT !.skip = sk, !.order_inits = oi],
      remote |-> MkRemote("cur", f, LocalWriters, {}, Ext)] :
        sk \in SkipLists, oi \in OrderLists,
        f \in {g \in RemoteResourcesOf(DefaultLocal) :
                 g["m1"] \in {AbsentResource, AllSynced["m1"]}}}

\* every state of the grants and of the model
PermissionScenarios ==
    {[cfg |-> [DefaultConfig EXCEPT !.skip = sk, !.disable_multicall = dm],
      remote |-> MkRemote("cur", f, ws, os, Ext)] :
        sk \in {{}, {"ns-m1"}}, dm \in BOOLEAN,
        f \in {AllSynced, [AllSynced EXCEPT !["c1"] = AbsentResource],
               [AllSynced EXCEPT !["m1"] = Registered(OldClass, FALSE)]},
        ws \in SUBSET (LocalWriters \cup ForeignWriters), os \in SUBSET LocalOwners}

\* every state of a library and an event, skip-listed or not
LibraryScenarios ==
    {[cfg |-> [DefaultConfig EXCEPT !.local = LibraryLocal, !.skip = sk,
                                    !.disable_multicall = dm],
      remote |-> MkRemote("cur", f, LocalWriters, LocalOwners, Ext)] :
        sk \in {{}, {"ns-l1"}}, dm \in BOOLEAN,
        f \in {g \in RemoteResourcesOf(LibraryLocal) :
                 g["c1"] \in {AbsentResource, SyncedWith(LibraryLocal)["c1"]}}}

\* malformed init arguments, on every state of the contracts
InitArgsScenarios ==
    {[cfg |-> [DefaultConfig EXCEPT !.init_call_args = a, !.skip = sk, !.order_inits = oi],
      remote |-> MkRemote("cur", f, LocalWriters, LocalOwners, Ext)] :
        a \in MalformedArgs, sk \in {{}, {"ns-c2"}}, oi \in OrderLists,
        f \in {g \in RemoteResourcesOf(DefaultLocal) :
                 g["ns"].present /\ g["m1"] = AllSynced["m1"]}}

\* an order list that leaves a contract out, on every state of the contracts
PartialOrderScenarios ==
    {[cfg |-> [DefaultConfig EXCEPT !.order_inits = PartialOrderList],
      remote |-> MkRemote("cur", f, LocalWriters, LocalOwners, Ext)] :
        f \in {g \in RemoteResourcesOf(DefaultLocal) :
                 g["ns"].present /\ g["m1"] = AllSynced["m1"]}}

\* two contracts compiled from the same code, with and without alternative
\* accounts
SharedCodeScenarios ==
    {[cfg |-> [DefaultConfig EXCEPT !.shared = TRUE, !.accounts = n],
      remote |-> MkRemote("cur", [NothingRegistered EXCEPT !["ns"] = Registered("none", FALSE),
                                                           !["c1"] = f1, !["c2"] = f2],
                          LocalWriters, LocalOwners, Ext)] :
        n \in {0, MaxAccounts},
        f1 \in {AbsentResource, Registered(OldClass, FALSE)},
        f2 \in {AbsentResource, Registered(OldClass, TRUE)}}

\* a world of an older version migrated without multicall
UpgradeScenarios ==
    {[cfg |-> [DefaultConfig EXCEPT !.disable_multicall = TRUE],
      remote |-> MkRemote("old", AllSynced, {}, {}, dep)] : dep \in SUBSET Ext}

Scenarios ==
    {s \in ResourceScenarios \cup WorldScenarios \cup SkipOrderScenarios
            \cup PermissionScenarios \cup LibraryScenarios \cup InitArgsScenarios
            \cup UpgradeScenarios \cup PartialOrderScenarios \cup SharedCodeScenarios :
        s.remote.res \in RemoteResources(s.remote.world)}

\* what the migration, as configured, still has to apply to the remote world
Pending(c, rem) ==
    \/ ~c.guest /\ rem.world # "cur"
    \/ \E r \in c.local :
          /\ Kind(r) = "Namespace" \/ ~IsSkipped(c, Tag(r))
          /\ ~rem.res[r].present \/ (Kind(r) # "Namespace" /\ rem.res[r].class # LocalClass(r))
    \/ \E p \in (LocalWriters \ rem.writers) \cup (LocalOwners \ rem.owners) :
          p[1] \in c.local /\ ~IsSkipped(c, Tag(p[1]))
    \/ \E r \in c.local : Kind(r) = "Contract" /\ ~IsSkipped(c, Tag(r)) /\ ~rem.res[r].init
    \/ \E x \in Ext : x \notin rem.deployed

NoChanges == [world |-> FALSE, resources |-> FALSE, permissions |-> FALSE,
              contracts |-> FALSE, external |-> FALSE]

NoResult == [returned |-> FALSE, has_changes |-> FALSE]

EmptyInvoker == [calls |-> <<>>, has_changed |-> FALSE]

Init ==
    /\ \E s \in Scenarios : cfg = s.cfg /\ remote = s.remote /\ start = s.remote
    /\ diff = ComputeDiff(remote)
    /\ pc = "ensure_world"
    /\ invoker = EmptyInvoker
    /\ changed = NoChanges
    /\ log = <<>>
    /\ faults = 0
    /\ cause = "none"
    /\ result = NoResult
    /\ run = 1
    /\ history = <<>>

----------------
(* migrate: the steps *)

\* migrate awaiting sync_permissions before sync_resources
NextStepPermissionsFirst(step) ==
    CASE step = "ensure_world" -> "sync_permissions"
      [] step = "sync_permissions" -> "sync_resources"
      [] step = "sync_resources" -> "initialize_contracts"
      [] step = "initialize_contracts" -> "sync_external_contracts"
      [] step = "sync_external_contracts" -> "return"

\* the order in which migrate awaits its steps
NextStep(step) ==
    CASE step = "ensure_world" -> "sync_resources"
      [] step = "sync_resources" -> "sync_permissions"
      [] step = "sync_permissions" -> "initialize_contracts"
      [] step = "initialize_contracts" -> "sync_external_contracts"
      [] step = "sync_external_contracts" -> "return"

\* has_changes without the flag of sync_permissions
HasChangesWithoutPermissions(ch) ==
    ch.world \/ ch.resources \/ ch.external \/ ch.contracts

\* has_changes without the flag of sync_external_contracts
HasChangesWithoutExternal(ch) ==
    ch.world \/ ch.resources \/ ch.permissions \/ ch.contracts

\* MigrationResult.has_changes
HasChanges(ch) ==
    ch.world \/ ch.resources \/ ch.permissions \/ ch.external \/ ch.contracts

Budget == MaxFaults - faults

\* where the environment may make a flush of `calls` fail
Stops(calls, multicall) ==
    {0} \cup IF Budget <= 0 \/ calls = <<>> THEN {}
             ELSE IF multicall THEN {1} ELSE DOMAIN calls

\* the flush of a step that does not look at do_multicall
FlushAlwaysMulticall(step, calls, rem, stop) == Multicall(step, calls, rem, stop)

\* the flush every step ends with: one multicall, or the calls one by one
Flush(step, calls, rem, stop) ==
    IF DoMulticall(cfg) THEN Multicall(step, calls, rem, stop)
    ELSE InvokeAllSequentially(step, calls, rem, stop)

\* the outcomes of a flush of `calls`, over the failures the environment may inject
Flushes(step, calls) ==
    {[r |-> Flush(step, calls, remote, stop), injected |-> IF stop # 0 THEN 1 ELSE 0] :
        stop \in Stops(calls, DoMulticall(cfg))}

\* the outcomes of one transaction of the migrator account
Transactions(step, op, calls) ==
    {[r |-> Transaction(step, op, calls, remote, stop), injected |-> IF stop # 0 THEN 1 ELSE 0] :
        stop \in Stops(calls, TRUE)}

\* the outcomes of declare_classes, over the iteration orders `orders` of the
\* classes map and the failures the environment may inject
DeclarationsIn(step, orders) ==
    UNION {{[r |-> DeclareClasses(step, cs, remote, cfg.accounts, fs),
             injected |-> NumFailures(fs)] :
               fs \in DeclareFailures(cs, remote, cfg.accounts, Budget)} :
            cs \in orders}

\* the outcomes of declare_classes on a map whose keys are `classes`
Declarations(step, classes) == DeclarationsIn(step, Perms(classes))

\* the run going on at `next` whatever the outcome of the step
ContinueIgnoringErrors(o, next) ==
    /\ remote' = o.r.remote
    /\ log' = log \o o.r.entries
    /\ faults' = faults + o.injected
    /\ cause' = o.r.cause
    /\ pc' = next

\* the step ended with outcome `o`: the run goes on at `next`, or stops on the error
Continue(o, next) ==
    /\ remote' = o.r.remote
    /\ log' = log \o o.r.entries
    /\ faults' = faults + o.injected
    /\ cause' = o.r.cause
    /\ pc' = IF o.r.cause = "none" THEN next ELSE "failed"

\* migrate in guest mode returning without running any step
MigrateGuestReturns ==
    /\ pc = "ensure_world"
    /\ cfg.guest
    /\ changed' = [changed EXCEPT !.world = FALSE]
    /\ pc' = "return"
    /\ UNCHANGED <<cfg, remote, diff, invoker, log, faults, cause, result, run, start, history>>

\* migrate in guest mode: ensure_world is not called
MigrateGuest ==
    /\ pc = "ensure_world"
    /\ cfg.guest
    /\ changed' = [changed EXCEPT !.world = FALSE]
    /\ pc' = NextStep("ensure_world")
    /\ UNCHANGED <<cfg, remote, diff, invoker, log, faults, cause, result, run, start, history>>

\* ensure_world, WorldStatus::Synced
EnsureWorldSynced ==
    /\ pc = "ensure_world"
    /\ ~cfg.guest
    /\ diff.world = "Synced"
    /\ changed' = [changed EXCEPT !.world = FALSE]
    /\ pc' = NextStep("ensure_world")
    /\ UNCHANGED <<cfg, remote, diff, invoker, log, faults, cause, result, run, start, history>>

\* ensure_world, NotDeployed or NewVersion: Declarer::declare of the world class
EnsureWorldDeclare ==
    /\ pc = "ensure_world"
    /\ ~cfg.guest
    /\ diff.world \in {"NotDeployed", "NewVersion"}
    /\ \E f \in FailSpecs(<<WorldClass>>, remote, Budget) :
          Continue([r |-> DeclareAll("ensure_world", Primary, <<WorldClass>>, remote,
                                     f.at, f.kind),
                    injected |-> IF f.at # 0 THEN 1 ELSE 0],
                   "ensure_world_call")
    /\ UNCHANGED <<cfg, diff, invoker, changed, result, run, start, history>>

\* ensure_world deploying the world and returning Ok(false)
EnsureWorldDeployUnreported ==
    /\ pc = "ensure_world_call"
    /\ diff.world = "NotDeployed"
    /\ \E o \in Transactions("ensure_world", "deploy",
                             <<MkCall("deploy_world", "world", WorldClass, "seed")>>) :
          Continue(o, NextStep("ensure_world"))
    /\ changed' = [changed EXCEPT !.world = FALSE]
    /\ UNCHANGED <<cfg, diff, invoker, result, run, start, history>>

\* ensure_world, NotDeployed: deploy_via_udc, waiting for the receipt
EnsureWorldDeploy ==
    /\ pc = "ensure_world_call"
    /\ diff.world = "NotDeployed"
    /\ \E o \in Transactions("ensure_world", "deploy",
                             <<MkCall("deploy_world", "world", WorldClass, "seed")>>) :
          Continue(o, NextStep("ensure_world"))
    /\ changed' = [changed EXCEPT !.world = TRUE]
    /\ UNCHANGED <<cfg, diff, invoker, result, run, start, history>>

\* ensure_world, NewVersion: deploying the world again instead of upgrading it
EnsureWorldUpgradeRedeploys ==
    /\ pc = "ensure_world_call"
    /\ diff.world = "NewVersion"
    /\ \E o \in Transactions("ensure_world", "deploy",
                             <<MkCall("deploy_world", "world", WorldClass, "seed")>>) :
          Continue(o, NextStep("ensure_world"))
    /\ changed' = [changed EXCEPT !.world = TRUE]
    /\ UNCHANGED <<cfg, diff, invoker, result, run, start, history>>

\* ensure_world, NewVersion: one upgrade call, always sent as a multicall
EnsureWorldUpgrade ==
    /\ pc = "ensure_world_call"
    /\ diff.world = "NewVersion"
    /\ \E o \in Transactions("ensure_world", "multicall",
                             <<MkCall("upgrade_world", "world", WorldClass, "none")>>) :
          Continue(o, NextStep("ensure_world"))
    /\ changed' = [changed EXCEPT !.world = TRUE]
    /\ UNCHANGED <<cfg, diff, invoker, result, run, start, history>>

\* migrate returning to the external contracts when the diff is synced
SyncResourcesSyncedSkipsAll ==
    /\ pc = "sync_resources"
    /\ IsSynced(diff)
    /\ changed' = [changed EXCEPT !.resources = FALSE]
    /\ pc' = "sync_external_contracts"
    /\ UNCHANGED <<cfg, remote, diff, invoker, log, faults, cause, result, run, start, history>>

\* migrate: sync_resources is not called when the diff is synced
SyncResourcesSynced ==
    /\ pc = "sync_resources"
    /\ IsSynced(diff)
    /\ changed' = [changed EXCEPT !.resources = FALSE]
    /\ pc' = NextStep("sync_resources")
    /\ UNCHANGED <<cfg, remote, diff, invoker, log, faults, cause, result, run, start, history>>

\* sync_resources up to the end of declare_classes
SyncResourcesDeclare ==
    /\ pc = "sync_resources"
    /\ ~IsSynced(diff)
    /\ SyncResourcesPanics(cfg, diff) = {}
    /\ LET classes == SyncResourcesClasses(cfg, diff)
       IN /\ \E calls \in {SyncResourcesCalls(cfg, diff, nss, ord) :
                              nss \in Perms(Namespaces), ord \in Perms(Local)} :
                invoker' = [calls |-> calls, has_changed |-> classes # {} \/ calls # <<>>]
          /\ \E o \in DeclarationsIn("sync_resources",
                                       UNION {ClassOrders(SyncResourcesClassMap(cfg, diff, ord)) :
                                                 ord \in Perms(Local)}) :
                Continue(o, "sync_resources_invoke")
    /\ UNCHANGED <<cfg, diff, changed, result, run, start, history>>

\* sync_resources: the loop panics on an Updated library, before anything
\* is declared or flushed
SyncResourcesPanic ==
    /\ pc = "sync_resources"
    /\ ~IsSynced(diff)
    /\ SyncResourcesPanics(cfg, diff) # {}
    /\ pc' = "failed"
    /\ cause' = "panic"
    /\ UNCHANGED <<cfg, remote, diff, invoker, changed, log, faults, result, run, start,
                   history>>

\* sync_resources: the flush of the invoker
SyncResourcesInvoke ==
    /\ pc = "sync_resources_invoke"
    /\ \E o \in Flushes("sync_resources", invoker.calls) :
          Continue(o, NextStep("sync_resources"))
    /\ changed' = [changed EXCEPT !.resources = invoker.has_changed]
    /\ invoker' = EmptyInvoker
    /\ UNCHANGED <<cfg, diff, result, run, start, history>>

\* sync_permissions
SyncPermissions ==
    /\ pc = "sync_permissions"
    /\ \E calls \in {SyncPermissionsCalls(cfg, diff, ord) : ord \in Perms(Local)} :
          /\ changed' = [changed EXCEPT !.permissions = calls # <<>>]
          /\ \E o \in Flushes("sync_permissions", calls) :
                Continue(o, NextStep("sync_permissions"))
    /\ UNCHANGED <<cfg, diff, invoker, result, run, start, history>>

\* initialize_contracts: nothing is flushed when there is no call
InitializeContracts ==
    /\ pc = "initialize_contracts"
    /\ InitArgsErrors(cfg, diff) = {}
    /\ \E calls \in {InitializeContractsCalls(cfg, diff, ord) : ord \in Perms(Local)} :
          /\ changed' = [changed EXCEPT !.contracts = calls # <<>>]
          /\ \E o \in IF calls # <<>> THEN Flushes("initialize_contracts", calls)
                      ELSE {[r |-> [remote |-> remote, cause |-> "none", entries |-> <<>>],
                             injected |-> 0]} :
                Continue(o, NextStep("initialize_contracts"))
    /\ UNCHANGED <<cfg, diff, invoker, result, run, start, history>>

\* initialize_contracts: the loop returns MigrationError::InitCallArgs, before
\* anything is flushed
InitializeContractsArgsError ==
    /\ pc = "initialize_contracts"
    /\ InitArgsErrors(cfg, diff) # {}
    /\ pc' = "failed"
    /\ cause' = "InitCallArgs"
    /\ UNCHANGED <<cfg, remote, diff, invoker, changed, log, faults, result, run, start,
                   history>>

\* sync_external_contracts up to the end of declare_classes
SyncExternalDeclare ==
    /\ pc = "sync_external_contracts"
    /\ \E o \in Declarations("sync_external_contracts", ExternalContractClasses(diff)) :
          Continue(o, "sync_external_invoke")
    /\ UNCHANGED <<cfg, diff, invoker, changed, result, run, start, history>>

\* sync_external_contracts: the deployment calls and their flush
SyncExternalInvoke ==
    /\ pc = "sync_external_invoke"
    /\ \E calls \in {SyncExternalCalls(diff, remote, ord) : ord \in Perms(Ext)} :
          /\ changed' = [changed EXCEPT !.external = calls # <<>>]
          /\ \E o \in Flushes("sync_external_contracts", calls) :
                Continue(o, NextStep("sync_external_contracts"))
    /\ UNCHANGED <<cfg, diff, invoker, result, run, start, history>>

\* migrate returns the MigrationResult
Return ==
    /\ pc = "return"
    /\ result' = [returned |-> TRUE, has_changes |-> HasChanges(changed)]
    /\ pc' = "done"
    /\ UNCHANGED <<cfg, remote, diff, invoker, changed, log, faults, cause, run, start, history>>

\* a new Migration is created on the diff recomputed from the remote world
Rerun ==
    /\ pc \in {"done", "failed"}
    /\ run < MaxRuns
    /\ history' = Append(history, [outcome |-> pc, has_changes |-> result.has_changes,
                                   pending |-> Pending(cfg, start), faults |-> faults,
                                   progress |-> remote # start])
    /\ start' = remote
    /\ run' = run + 1
    /\ diff' = ComputeDiff(remote)
    /\ pc' = "ensure_world"
    /\ invoker' = EmptyInvoker
    /\ changed' = NoChanges
    /\ log' = <<>>
    /\ cause' = "none"
    /\ result' = NoResult
    /\ UNCHANGED <<cfg, faults>>
    /\ remote' = remote

Next ==
    \/ MigrateGuest
    \/ EnsureWorldSynced
    \/ EnsureWorldDeclare
    \/ EnsureWorldDeploy
    \/ EnsureWorldUpgrade
    \/ SyncResourcesSynced
    \/ SyncResourcesDeclare
    \/ SyncResourcesPanic
    \/ SyncResourcesInvoke
    \/ SyncPermissions
    \/ InitializeContracts
    \/ InitializeContractsArgsError
    \/ SyncExternalDeclare
    \/ SyncExternalInvoke
    \/ Return
    \/ Rerun

Spec == Init /\ [][Next]_vars

----------------------------------------------------------------------------
(* Reading the log *)

StepIndex(step) == Position(StepNames, step)

\* the calls of the entries of `step`, in the order they were sent
CallsOf(step) ==
    Flatten([i \in DOMAIN log |-> IF log[i].step = step THEN log[i].calls ELSE <<>>])

AllCalls == Flatten([i \in DOMAIN log |-> log[i].calls])

\* the classes the run has published so far
PublishedClasses == UNION {log[i].classes : i \in DOMAIN log}

\* the steps the current run has completed without error
Completed(step) ==
    /\ pc \notin {"failed"}
    /\ CASE pc = "ensure_world_call" -> FALSE
         [] pc = "sync_resources_invoke" -> StepIndex(step) < StepIndex("sync_resources")
         [] pc = "sync_external_invoke" -> StepIndex(step) < StepIndex("sync_external_contracts")
         [] pc \in {"return", "done"} -> TRUE
         [] OTHER -> StepIndex(step) < StepIndex(pc)

----------------------------------------------------------------------------
(* C1 *)

\* C1: the remote operations of a run are issued step by step, in the order
\* ensure_world, sync_resources, sync_permissions, initialize_contracts,
\* sync_external_contracts: an operation of a step is never followed by an
\* operation of an earlier step.
C1_StepsInOrder ==
    \A i, j \in DOMAIN log : i < j => StepIndex(log[i].step) <= StepIndex(log[j].step)

\* a run that issued operations in each of the five steps
C1_Witness ==
    /\ pc = "done"
    /\ \A k \in DOMAIN StepNames : \E i \in DOMAIN log : log[i].step = StepNames[k]

----------------------------------------------------------------------------
(* C2 *)

\* the class referenced by call `c` of entry `i` was declared before the entry
\* was sent: it is declared, and no declaration of the run at or after the
\* entry published it
DeclaredBefore(i, c) ==
    /\ c.class \in remote.declared
    /\ \A j \in i..Len(log) : c.class \notin log[j].classes

\* C2: every register, upgrade or deploy call sent to the remote target
\* references a class whose publication completed in an earlier batch.
C2_PublicationBeforeReference ==
    \A i \in DOMAIN log : \A k \in DOMAIN log[i].calls :
        ReferencesClass(log[i].calls[k]) => DeclaredBefore(i, log[i].calls[k])

----------------------------------------------------------------------------
(* C3 *)

IsRegisterNamespace(c, n) == c.fn = "register_namespace" /\ c.target = n

IsResourceCallIn(c, n) ==
    c.fn \in RegisterFns \cup UpgradeFns /\ Namespace(c.target) = n

\* in `calls` the register call of a namespace comes before every register or
\* upgrade call of a resource of that namespace
NamespaceFirstIn(calls) ==
    \A i, j \in DOMAIN calls : \A n \in Namespaces :
        IsRegisterNamespace(calls[i], n) /\ IsResourceCallIn(calls[j], n) => i < j

\* C3: in the calls flushed by sync_resources, the register call of a namespace
\* comes strictly before every register or upgrade call of a resource of that
\* namespace.
C3_NamespaceFirst == NamespaceFirstIn(CallsOf("sync_resources"))

\* the resource step flushed the registration of a namespace and of a contract
\* and a model of that namespace
C3_Witness ==
    LET calls == CallsOf("sync_resources")
    IN /\ Completed("sync_resources")
       /\ \E i, j, k \in DOMAIN calls :
             /\ IsRegisterNamespace(calls[i], "ns")
             /\ calls[j].fn = "register_contract"
             /\ calls[k].fn = "register_model"

----------------------------------------------------------------------------
(* C4 *)

\* the run before the current one
Previous == history[run - 1]

----------------------------------------------------------------------------
(* C5 *)

\* whether the remote world `rem` already holds what call `c` applies
AlreadyApplied(rem, c) ==
    CASE c.fn = "deploy_world" -> rem.world # "none"
      [] c.fn = "upgrade_world" -> rem.world = "cur"
      [] c.fn = "deploy_external" -> c.target \in rem.deployed
      [] c.fn = "register_namespace" -> rem.res[c.target].present
      [] c.fn \in RegisterFns -> rem.res[c.target].present
      [] c.fn \in UpgradeFns -> rem.res[c.target].class = c.class
      [] c.fn = "grant_writer" -> <<c.target, c.data>> \in rem.writers
      [] c.fn = "grant_owner" -> <<c.target, c.data>> \in rem.owners
      [] c.fn = "init_contract" -> rem.res[c.target].init

----------------------------------------------------------------------------
(* C6 *)

\* the calls the run sent for resource `r`
CallsFor(r) == {i \in DOMAIN AllCalls : AllCalls[i].target = r}

\* C6 as stated: for every resource whose tag is skip-listed, namespaces
\* included, the run sends no call and publishes no class for that resource.
C6_SkipListExclusion ==
    \A r \in Local : IsSkipped(cfg, Tag(r)) =>
        CallsFor(r) = {} /\ LocalClass(r) \notin PublishedClasses

\* C6: for every skip-listed contract, model or event the run sends no
\* register, upgrade, grant or init call and publishes no class, and for a
\* skip-listed namespace it sends no grant; the only call sent for a
\* skip-listed resource is the register_namespace of a skip-listed namespace
\* that the remote world lacks, which sync_resources still sends.
C6_SkipListExclusionButNamespaces ==
    \A r \in Local : IsSkipped(cfg, Tag(r)) =>
        /\ \A i \in CallsFor(r) :
              Kind(r) = "Namespace" /\ AllCalls[i].fn = "register_namespace"
        /\ LocalClass(r) \notin PublishedClasses
        /\ Kind(r) = "Namespace" /\ diff.res[r].status = "Created"
                /\ Completed("sync_resources")
              => \E i \in CallsFor(r) : AllCalls[i].fn = "register_namespace"

\* a run returned that had a skip-listed namespace and a skip-listed contract
\* to create: it registered the namespace and sent nothing for the contract
C6_Witness ==
    /\ pc = "done"
    /\ \E n, r \in Local :
          /\ IsSkipped(cfg, Tag(n)) /\ Kind(n) = "Namespace"
          /\ diff.res[n].status = "Created" /\ CallsFor(n) # {}
          /\ IsSkipped(cfg, Tag(r)) /\ Kind(r) = "Contract"
          /\ diff.res[r].status = "Created" /\ CallsFor(r) = {}

----------------------------------------------------------------------------
(* C7 *)

IsInitOf(c, r) == c.fn = "init_contract" /\ c.target = r

\* the number of init calls the diff asks for resource `r`
ExpectedInits(r) ==
    IF /\ r \in Local
       /\ Kind(r) = "Contract"
       /\ ~IsSkipped(cfg, Tag(r))
       /\ \/ diff.res[r].status = "Created"
          \/ diff.res[r].status \in {"Updated", "Synced"} /\ ~diff.res[r].is_initialized
    THEN 1 ELSE 0

\* `calls` holds one init call for every eligible contract and nothing else
InitsAsExpected(calls) ==
    /\ \A r \in Res :
          Cardinality({i \in DOMAIN calls : IsInitOf(calls[i], r)}) = ExpectedInits(r)
    /\ \A i \in DOMAIN calls : calls[i].fn = "init_contract"

\* C7: initialize_contracts sends exactly one init call for each contract
\* that is not skip-listed and is either Created, or Updated or Synced and not
\* initialized, and none for any other resource; it sends no other call.
C7_InitEligibility ==
    Completed("initialize_contracts") => InitsAsExpected(CallsOf("initialize_contracts"))

\* initialize_contracts initialised one contract and left alone another that
\* was already initialized
C7_Witness ==
    /\ Completed("initialize_contracts")
    /\ \E r1, r2 \in Local :
          /\ Kind(r1) = "Contract" /\ Kind(r2) = "Contract"
          /\ ExpectedInits(r1) = 1
          /\ diff.res[r2].status # "Created" /\ diff.res[r2].is_initialized
          /\ ~IsSkipped(cfg, Tag(r2))
    /\ CallsOf("initialize_contracts") # <<>>

----------------------------------------------------------------------------
(* C8 *)

\* the place of the tag of the target of call `c` in the order list, 0 if absent
Place(c) == Position(cfg.order_inits, Tag(c.target))

\* the calls of `calls` whose tags are in the order list follow the list
ListOrderIn(calls) ==
    \A i, j \in DOMAIN calls :
        Place(calls[i]) # 0 /\ Place(calls[j]) # 0 /\ Place(calls[i]) < Place(calls[j])
            => i < j

\* C8: in the calls sent by initialize_contracts, the init calls of two
\* contracts whose tags are both in the order list come in the order of the
\* list.
C8_InitOrdering == ListOrderIn(CallsOf("initialize_contracts"))

\* initialize_contracts sent the init calls of two contracts of the order list
C8_Witness ==
    LET calls == CallsOf("initialize_contracts")
    IN /\ Completed("initialize_contracts")
       /\ \E i, j \in DOMAIN calls :
             Place(calls[i]) # 0 /\ Place(calls[j]) # 0 /\ Place(calls[i]) < Place(calls[j])

----------------------------------------------------------------------------
(* C9 *)

\* the number of grant calls `fn` the run needs for grantee `g` on resource
\* `r`: one for a grant declared locally that the remote world lacked
ExpectedGrants(r, g, local, rem) ==
    IF r \in Local /\ ~IsSkipped(cfg, Tag(r)) /\ <<r, g>> \in local /\ <<r, g>> \notin rem
    THEN 1 ELSE 0

\* the grant calls `calls` are what the diff asks for: no call twice, every
\* call a grant declared locally and absent remotely on a resource that is not
\* skip-listed, and one call for every such grant
GrantsAsExpected(calls) ==
    /\ \A i, j \in DOMAIN calls : i # j => calls[i] # calls[j]
    /\ \A i \in DOMAIN calls :
          /\ calls[i].class = "none"
          /\ \/ /\ calls[i].fn = "grant_writer"
                /\ ExpectedGrants(calls[i].target, calls[i].data, LocalWriters,
                                  start.writers) = 1
             \/ /\ calls[i].fn = "grant_owner"
                /\ ExpectedGrants(calls[i].target, calls[i].data, LocalOwners,
                                  start.owners) = 1
    /\ \A p \in LocalWriters :
          ExpectedGrants(p[1], p[2], LocalWriters, start.writers) = 1
             => \E i \in DOMAIN calls : calls[i] = MkCall("grant_writer", p[1], "none", p[2])
    /\ \A p \in LocalOwners :
          ExpectedGrants(p[1], p[2], LocalOwners, start.owners) = 1
             => \E i \in DOMAIN calls : calls[i] = MkCall("grant_owner", p[1], "none", p[2])

\* C9: sync_permissions sends, for every resource that is not skip-listed,
\* exactly one grant call for each writer and each owner declared locally and
\* absent remotely, with the resource as target and the grantee as argument;
\* it sends none for a grant the remote world already holds, none for a grant
\* only the remote world holds, and no other call.
C9_PermissionGrants ==
    Completed("sync_permissions") => GrantsAsExpected(CallsOf("sync_permissions"))

\* sync_permissions granted an owner while a writer was only remote and
\* another owner was already granted
C9_Witness ==
    /\ Completed("sync_permissions")
    /\ \E i \in DOMAIN CallsOf("sync_permissions") :
          CallsOf("sync_permissions")[i].fn = "grant_owner"
    /\ start.writers \ LocalWriters # {}
    /\ start.owners \cap LocalOwners # {}

----------------------------------------------------------------------------
(* C10 *)

\* a step of the run produced a call or a class to publish
Produced == \E i \in DOMAIN log : log[i].calls # <<>> \/ log[i].op = "declare"

----------------------------------------------------------------------------
(* C11 *)

DeclareSteps == {"sync_resources", "sync_external_contracts"}

\* the entries of the declarers of declare_classes in step `S`
DeclarersOf(S) == {i \in DOMAIN log : log[i].step = S /\ log[i].op = "declare"}

\* some declarer of step `S` failed on "Class already declared", and none
\* failed on anything else
OnlyAlreadyDeclared(S) ==
    /\ \E i \in DeclarersOf(S) : log[i].error = "already_declared"
    /\ \A i \in DeclarersOf(S) : log[i].error \in {"none", "already_declared"}

\* declare_classes of step `S` returned an error: the run stopped on its declarers
DeclareClassesFailed(S) ==
    pc = "failed" /\ log # <<>> /\ Len(log) \in DeclarersOf(S)

\* C11: with alternative accounts, when a declarer fails on "Class already
\* declared" and no declarer fails on another error, declare_classes returns
\* Ok: the run does not stop there.
C11_AlreadyDeclaredTolerated ==
    cfg.accounts > 0 =>
        \A S \in DeclareSteps : OnlyAlreadyDeclared(S) => ~DeclareClassesFailed(S)

\* a declarer of sync_resources failed on "Class already declared" and the
\* run went on to the flush of the step
C11_Witness ==
    /\ cfg.accounts > 0
    /\ OnlyAlreadyDeclared("sync_resources")
    /\ pc = "sync_resources_invoke"

----------------------------------------------------------------------------
(* C12 *)

\* C12: no run stops because a class it had to publish was already declared,
\* on any path: the declarer of the primary account, the declaration of the
\* world class, the sharded declarers.
C12_AlreadyPublishedNeverFatal ==
    pc = "failed" => cause # "already_declared"

----------------------------------------------------------------------------
(* C13 *)

\* nothing of the diff diverges
EmptyDiff ==
    /\ diff.world = "Synced"
    /\ \A r \in Local : diff.res[r].status = "Synced"
    /\ \A r \in Local : Kind(r) = "Contract" => diff.res[r].is_initialized
    /\ diff.writers.local = {} /\ diff.owners.local = {}
    /\ \A x \in Ext : diff.ext[x] = "Synced"
    /\ \A h \in ExtClasses : diff.ext_classes[h] = "Synced"

\* C13: on a diff where nothing diverges, migrate issues no remote operation,
\* does not fail, and returns has_changes = false.
C13_EmptyDiff ==
    EmptyDiff =>
        /\ log = <<>>
        /\ pc # "failed"
        /\ result.returned => ~result.has_changes

\* the first run on a diff where nothing diverges returned
C13_Witness ==
    EmptyDiff /\ run = 1 /\ pc = "done" /\ result.returned

----------------------------------------------------------------------------
(* C14 *)

HasCall(i, fn) == \E k \in DOMAIN log[i].calls : log[i].calls[k].fn = fn

\* C14: when the world is NotDeployed and the run is not a guest's, the
\* world class is declared before the deploy call is sent, every operation of
\* a later step comes after the accepted deploy transaction, ensure_world
\* reports a change once the world is deployed, and the run returns
\* has_changes = true.
C14_NotDeployed ==
    ~cfg.guest /\ diff.world = "NotDeployed" =>
        /\ \A i \in DOMAIN log : HasCall(i, "deploy_world") =>
              /\ log[i].step = "ensure_world"
              /\ \/ WorldClass \in start.declared
                 \/ \E j \in 1..(i - 1) : WorldClass \in log[j].classes
        /\ \A i \in DOMAIN log : log[i].step # "ensure_world" =>
              \E j \in 1..(i - 1) : HasCall(j, "deploy_world") /\ log[j].ok
        /\ Completed("ensure_world") =>
              /\ changed.world /\ remote.world = "cur"
              /\ \E j \in DOMAIN log : HasCall(j, "deploy_world") /\ log[j].ok
        /\ result.returned => result.has_changes

\* a run declared the world class, deployed the world, went through the
\* later steps and returned
C14_Witness ==
    /\ ~cfg.guest /\ diff.world = "NotDeployed" /\ WorldClass \notin start.declared
    /\ pc = "done" /\ result.has_changes
    /\ \E i \in DOMAIN log : log[i].step = "sync_resources"

----------------------------------------------------------------------------
(* C16 *)

\* the operation of entry `e` failed with an error its step returns: every
\* error but "Class already declared" of a declarer of an alternative account
Fatal(e) ==
    ~e.ok /\ ~(e.op = "declare" /\ e.signer # Primary /\ e.error = "already_declared")

\* what the accepted operation of entry `e` applied is still in the remote world
StillApplied(e) ==
    /\ \A k \in DOMAIN e.calls : AlreadyApplied(remote, e.calls[k])
    /\ e.classes \subseteq remote.declared

\* C16: once an operation fails with an error its step returns, the run has
\* failed with that error and returns no result; the only operations after
\* the failed one are those of the other declarers of the same declare_classes,
\* which are joined before the error is returned; and what the earlier
\* operations applied stays applied.
C16_AbortOnFirstError ==
    /\ \A i \in DOMAIN log : Fatal(log[i]) =>
          /\ pc = "failed" /\ cause # "none" /\ ~result.returned
          /\ \A j \in (i + 1)..Len(log) :
                /\ log[j].step = log[i].step
                /\ log[i].op = "declare" /\ log[j].op = "declare"
    /\ \A i \in DOMAIN log : log[i].ok => StillApplied(log[i])

\* a run failed in a step after operations of an earlier step were accepted
C16_Witness ==
    /\ pc = "failed"
    /\ \E i, j \in DOMAIN log :
          /\ i < j /\ log[i].ok /\ log[i].calls # <<>>
          /\ Fatal(log[j]) /\ StepIndex(log[i].step) < StepIndex(log[j].step)
          /\ StepIndex(log[j].step) < StepIndex("sync_external_contracts")

----------------------------------------------------------------------------
(* C19 *)

\* C19: a guest's run does nothing of ensure_world, whatever the status of
\* the world: no operation of that step, no declaration of the world class, no
\* deploy or upgrade call, and no change reported for the world; the other
\* steps run, so a run that returns leaves nothing of theirs to apply.
C19_Guest ==
    cfg.guest =>
        /\ \A i \in DOMAIN log :
              /\ log[i].step # "ensure_world"
              /\ WorldClass \notin log[i].classes
              /\ ~HasCall(i, "deploy_world") /\ ~HasCall(i, "upgrade_world")
        /\ ~changed.world
        /\ remote.world = start.world
        /\ pc = "done" => ~Pending(cfg, remote)

\* a guest's run on a world of an older version sent the calls of the later
\* steps and returned, the world not upgraded
C19_Witness ==
    /\ cfg.guest /\ diff.world = "NewVersion"
    /\ pc = "done" /\ result.has_changes /\ log # <<>>
    /\ remote.world = "old"

----------------------------------------------------------------------------
(* C15 *)

\* the only divergence of the diff is contract `r`, Created, with configured
\* init args and no order list
OnlyCreatedContract(r) ==
    /\ r \in Local /\ Kind(r) = "Contract" /\ ~IsSkipped(cfg, Tag(r))
    /\ diff.res[r].status = "Created"
    /\ InitCallArgs(Tag(r)) \notin {"none", Malformed}
    /\ cfg.order_inits = <<>>
    /\ diff.world = "Synced"
    /\ \A q \in Local \ {r} :
          /\ diff.res[q].status = "Synced"
          /\ Kind(q) = "Contract" => diff.res[q].is_initialized
    /\ diff.writers.local = {} /\ diff.owners.local = {}
    /\ \A x \in Ext : diff.ext[x] = "Synced"

\* the run issued at most three operations and, once it returned, exactly
\* the declaration of the class of `r`, its register call and its init call
ThreeOperations(r) ==
    /\ Len(log) <= 3
    /\ pc = "done" =>
          /\ Len(log) = 3
          /\ log[1].op = "declare" /\ log[1].classes = {LocalClass(r)} /\ log[1].calls = <<>>
          /\ log[2].ok /\ log[2].classes = {}
          /\ log[2].calls = <<MkCall("register_contract", r, LocalClass(r), "none")>>
          /\ log[3].ok /\ log[3].classes = {}
          /\ log[3].calls = <<MkCall("init_contract", r, "none",
                                      "[" \o InitCallArgs(Tag(r)) \o "]")>>

\* C15: when the only divergence is one Created contract with configured init
\* args and no order list, a run that returns has issued exactly three
\* operations, in this order: the declaration of the class of the contract,
\* its register call, its init call with the configured args.
C15_SingleCreatedContract ==
    \A r \in Res : OnlyCreatedContract(r) => ThreeOperations(r)

\* C15, amended: the same, when the class of the contract was not declared
\* remotely at the start of the run (a declared class is not declared again,
\* and the run issues the register call and the init call only).
C15_SingleCreatedContractUndeclared ==
    \A r \in Res : OnlyCreatedContract(r) /\ LocalClass(r) \notin start.declared
                       => ThreeOperations(r)

\* a run on a diff whose only divergence is one Created contract returned
C15_Witness ==
    /\ \E r \in Res : OnlyCreatedContract(r) /\ LocalClass(r) \notin start.declared
    /\ pc = "done" /\ Len(log) = 3

----------------------------------------------------------------------------
(* C17 *)

\* the diff holds an Updated library that is not skip-listed
UpdatedLibrary(r) ==
    /\ r \in Local /\ Kind(r) = "Library" /\ ~IsSkipped(cfg, Tag(r))
    /\ diff.res[r].status = "Updated"

\* C17: on a diff with an Updated library that is not skip-listed the run
\* never gets past sync_resources: it issues no operation of that step or of
\* a later one (no declaration, no register or upgrade call), the library
\* stays as it was remotely, and the run fails on the panic.
C17_UpdatedLibrary ==
    \A r \in Res : UpdatedLibrary(r) =>
        /\ pc \in {"ensure_world", "ensure_world_call", "sync_resources", "failed"}
        /\ \A i \in DOMAIN log : log[i].step = "ensure_world"
        /\ remote.res = start.res
        /\ ~result.returned
        /\ pc = "failed" /\ (\A i \in DOMAIN log : log[i].ok) => cause = "panic"

\* a run failed on an Updated library while the diff held a resource to create
C17_Witness ==
    /\ \E r \in Res : UpdatedLibrary(r)
    /\ \E q \in Local : Kind(q) # "Library" /\ diff.res[q].status = "Created"
                        /\ ~IsSkipped(cfg, Tag(q))
    /\ pc = "failed" /\ cause = "panic"

----------------------------------------------------------------------------
(* C18 *)

\* contract `r` is eligible for an init call and its args entry is malformed
MalformedEligible(r) == ExpectedInits(r) = 1 /\ InitCallArgs(Tag(r)) = Malformed

\* every init call of `calls` carries the decoded args entry of its contract
InitArgsDecodedIn(calls) ==
    \A i \in DOMAIN calls :
        calls[i].fn = "init_contract" =>
            calls[i].data = IF InitCallArgs(Tag(calls[i].target)) = "none" THEN "[]"
                            ELSE "[" \o InitCallArgs(Tag(calls[i].target)) \o "]"

\* C18: an init call of a contract without an args entry carries the empty
\* list, and one with an entry carries the decoded entry; when an eligible
\* contract has a malformed entry, no operation of initialize_contracts or of a
\* later step is issued and the run, if it reaches the step, fails with
\* InitCallArgs; a malformed entry of a contract that is not eligible never
\* makes the run fail with InitCallArgs.
C18_InitArgs ==
    /\ InitArgsDecodedIn(AllCalls)
    /\ (\E r \in Res : MalformedEligible(r)) =>
          /\ \A i \in DOMAIN log :
                StepIndex(log[i].step) < StepIndex("initialize_contracts")
          /\ pc \notin {"sync_external_contracts", "sync_external_invoke", "return", "done"}
          /\ pc = "failed" /\ (\A i \in DOMAIN log : ~Fatal(log[i])) => cause = "InitCallArgs"
    /\ (\A r \in Res : ~MalformedEligible(r)) => cause # "InitCallArgs"

\* initialize_contracts failed on the malformed entry of an eligible contract
\* while another eligible contract had a well-formed entry
C18_Witness ==
    /\ pc = "failed" /\ cause = "InitCallArgs"
    /\ \E r, q \in Res :
          /\ MalformedEligible(r)
          /\ ExpectedInits(q) = 1 /\ InitCallArgs(Tag(q)) \notin {"none", Malformed}

----------------------------------------------------------------------------
(* C20 *)

\* the calls sync_resources collected for resource `r`
CollectedFor(r) == SelectSeq(invoker.calls, LAMBDA c : c.target = r /\ c.fn \notin {"register_namespace"})

RegisterFn(r) ==
    CASE Kind(r) = "Contract" -> "register_contract"
      [] Kind(r) = "Model" -> "register_model"
      [] Kind(r) = "Event" -> "register_event"
      [] Kind(r) = "Library" -> "register_library"

UpgradeFn(r) ==
    CASE Kind(r) = "Contract" -> "upgrade_contract"
      [] Kind(r) = "Model" -> "upgrade_model"
      [] Kind(r) = "Event" -> "upgrade_event"

\* the calls the diff entry of resource `r` asks for
ExpectedCalls(r) ==
    CASE diff.res[r].status = "Created" ->
            <<MkCall(RegisterFn(r), r, LocalClass(r),
                     IF Kind(r) = "Library" THEN "v1" ELSE "none")>>
      [] diff.res[r].status = "Updated" /\ Kind(r) # "Library" ->
            <<MkCall(UpgradeFn(r), r, LocalClass(r), "none")>>
      [] OTHER -> <<>>

\* C20: when sync_resources has collected its calls and classes, each
\* contract, model, event or library that is not skip-listed has exactly one
\* register call and its class among the classes to declare if it is Created,
\* exactly one upgrade call and its class if it is Updated (contract, model,
\* event), and no call and no class if it is Synced; the step declares no
\* class of a Synced resource.
C20_DiffToOperation ==
    pc = "sync_resources_invoke" =>
        \A r \in Local : Kind(r) # "Namespace" /\ ~IsSkipped(cfg, Tag(r)) =>
            /\ CollectedFor(r) = ExpectedCalls(r)
            /\ diff.res[r].status \in {"Created", "Updated"}
                  => LocalClass(r) \in SyncResourcesClasses(cfg, diff)
            /\ diff.res[r].status = "Synced"
                  => \/ LocalClass(r) \notin SyncResourcesClasses(cfg, diff)
                     \/ \E q \in Local \ {r} : LocalClass(q) = LocalClass(r)
            /\ diff.res[r].status = "Synced" => LocalClass(r) \notin PublishedClasses

\* sync_resources collected the calls of a Created library, an Updated event
\* and a Synced contract
C20_Witness ==
    /\ pc = "sync_resources_invoke"
    /\ \E l, e, c \in Local :
          /\ Kind(l) = "Library" /\ diff.res[l].status = "Created" /\ CollectedFor(l) # <<>>
          /\ Kind(e) = "Event" /\ diff.res[e].status = "Updated" /\ CollectedFor(e) # <<>>
          /\ Kind(c) = "Contract" /\ diff.res[c].status = "Synced" /\ CollectedFor(c) = <<>>

----------------------------------------------------------------------------
(* C21 *)

\* the deployment calls sync_external_contracts sent for external contract `x`
DeploysSent(x) ==
    LET calls == CallsOf("sync_external_contracts")
    IN Cardinality({i \in DOMAIN calls :
                       /\ calls[i] = MkCall("deploy_external", x, ExtClass(x),
                                            "raw_constructor_data")})

\* C21: sync_external_contracts publishes no class but those of the external
\* contract classes the diff holds as Created, and every such class is
\* declared when the deployment calls are built; once the step has completed
\* it has sent exactly one deployment call for each external contract the
\* diff holds as Created, none for any other, no other call, and every
\* declaration of the step before its first call.
C21_ExternalSync ==
    LET S == "sync_external_contracts"
        created == {h \in ExtClasses : diff.ext_classes[h] = "Created"}
    IN /\ \A i \in DeclarersOf(S) : log[i].classes \subseteq created
       /\ pc = "sync_external_invoke" =>
             /\ created \subseteq remote.declared
             /\ \A h \in created :
                   \E i \in DeclarersOf(S) :
                       h \in log[i].classes \/ log[i].error = "already_declared"
       /\ \A i, j \in DOMAIN log :
             log[i].step = S /\ log[j].step = S /\ log[i].op = "declare" /\ log[j].op # "declare"
                => i < j
       /\ Completed(S) =>
             /\ \A x \in Ext : DeploysSent(x) = IF diff.ext[x] = "Created" THEN 1 ELSE 0
             /\ Len(CallsOf(S)) = Cardinality({x \in Ext : diff.ext[x] = "Created"})

\* a run published the class of a Created external contract and deployed it
C21_Witness ==
    /\ pc = "done"
    /\ \E x \in Ext :
          /\ diff.ext[x] = "Created" /\ diff.ext_classes[ExtClass(x)] = "Created"
          /\ DeploysSent(x) = 1
          /\ \E i \in DeclarersOf("sync_external_contracts") : ExtClass(x) \in log[i].classes

----------------------------------------------------------------------------
(* C22 *)

\* the classes the diff asks sync_resources to publish
ClassesToPublish ==
    {LocalClass(r) : r \in {q \in Local : /\ Kind(q) # "Namespace"
                                          /\ ~IsSkipped(cfg, Tag(q))
                                          /\ diff.res[q].status \in {"Created", "Updated"}}}

\* a declarer of step `S` failed on an error that is not tolerated
HardFailure(S) ==
    \E i \in DeclarersOf(S) : log[i].error \notin {"none", "already_declared"}

Min(a, b) == IF a <= b THEN a ELSE b

\* C22: with alternative accounts, declare_classes fails exactly when one of
\* its declarers failed on an error other than "Class already declared"; and
\* whether or not a declarer failed, every declarer that was given a class has
\* run: when none of the classes was declared before the run, as many
\* declarers have reported as there are shards with a class.
C22_FailTogether ==
    cfg.accounts > 0 =>
        /\ \A S \in DeclareSteps :
              HardFailure(S)
                 <=> (pc = "failed" /\ cause = "declare_error" /\ Len(log) \in DeclarersOf(S))
        /\ DeclarersOf("sync_resources") # {} /\ ClassesToPublish \cap start.declared = {}
              => Cardinality(DeclarersOf("sync_resources"))
                    = Min(cfg.accounts, Cardinality(ClassesToPublish))

\* a declarer of sync_resources failed and a declarer that ran after it
\* published its classes; declare_classes then failed
C22_Witness ==
    /\ cfg.accounts > 0 /\ pc = "failed"
    /\ \E i, j \in DeclarersOf("sync_resources") :
          /\ i < j
          /\ log[i].error = "fault"
          /\ log[j].ok /\ log[j].classes # {}

----------------------------------------------------------------------------
(* C23 *)

\* the number of classes declarer entry `i` published
Size(i) == Cardinality(log[i].classes)

\* declare_classes of sync_resources has returned Ok and every class it was
\* given was published by one of its declarers
AllPublishedBy(S) ==
    /\ pc = "sync_resources_invoke"
    /\ ClassesToPublish \cap start.declared = {}
    /\ \A i \in DeclarersOf(S) : log[i].ok

----------------------------------------------------------------------------
(* C24 *)

\* C24: the declarers of one declare_classes, which run concurrently, sign
\* with pairwise different accounts, none of them the primary account when
\* there are alternative accounts; and the primary account sends no
\* transaction of the step before the declarers have been joined: every
\* transaction of the invoker of the step comes after every declaration of
\* the step, and none has been sent while sync_resources holds its calls.
C24_NoNonceCollision ==
    /\ \A S \in DeclareSteps :
          /\ \A i, j \in DeclarersOf(S) : i # j => log[i].signer # log[j].signer
          /\ cfg.accounts > 0 => \A i \in DeclarersOf(S) : log[i].signer # Primary
          /\ \A i, j \in DOMAIN log :
                /\ log[i].step = S /\ log[i].op = "declare"
                /\ log[j].step = S /\ log[j].op # "declare"
                => i < j /\ log[j].signer = Primary
    /\ pc = "sync_resources_invoke" =>
          \A i \in DOMAIN log : log[i].step = "sync_resources" => log[i].op = "declare"

\* two declarers of sync_resources signed with different alternative accounts
\* and the primary account then sent the calls of the step
C24_Witness ==
    /\ \E i, j \in DeclarersOf("sync_resources") :
          /\ log[i].signer # log[j].signer
          /\ log[i].signer # Primary /\ log[j].signer # Primary
    /\ \E k \in DOMAIN log :
          log[k].step = "sync_resources" /\ log[k].op # "declare" /\ log[k].signer = Primary

----------------------------------------------------------------------------
(* C25 *)

\* in `calls` no writer grant follows an owner grant of the same resource, and
\* the grants of one resource are contiguous
WritersBeforeOwnersIn(calls) ==
    /\ \A i, j \in DOMAIN calls :
          /\ i < j /\ calls[i].target = calls[j].target
          => ~(calls[i].fn = "grant_owner" /\ calls[j].fn = "grant_writer")
    /\ \A i, j, k \in DOMAIN calls :
          i < k /\ k < j /\ calls[i].target = calls[j].target
             => calls[k].target = calls[i].target

\* C25: in the sequence of the grant calls sync_permissions sends, a writer
\* grant of a resource never comes after an owner grant of the same resource,
\* and the grants of one resource are contiguous: no grant of another
\* resource comes between two of them.
C25_WritersBeforeOwners == WritersBeforeOwnersIn(CallsOf("sync_permissions"))

\* sync_permissions granted a writer and an owner of one resource and an
\* owner of another resource
C25_Witness ==
    LET calls == CallsOf("sync_permissions")
    IN /\ Completed("sync_permissions")
       /\ \E i, j, k \in DOMAIN calls :
             /\ calls[i].target = calls[j].target
             /\ calls[i].fn = "grant_writer" /\ calls[j].fn = "grant_owner"
             /\ calls[k].target # calls[i].target

----------------------------------------------------------------------------
(* C26 *)

\* the entries that carry an upgrade call of the world
Upgrades == {i \in DOMAIN log : HasCall(i, "upgrade_world")}

\* C26: when the world is of an older version and the run is not a guest's,
\* ensure_world sends no deploy call, sends its upgrade call alone in its
\* transaction and only once the world class is declared, and once the step
\* has completed it has sent exactly one upgrade call and reports a change;
\* when the world is Synced, ensure_world issues no operation and reports no
\* change.
C26_WorldUpgrade ==
    /\ ~cfg.guest /\ diff.world = "NewVersion" =>
          /\ \A i \in DOMAIN log : ~HasCall(i, "deploy_world")
          /\ \A i \in Upgrades :
                /\ log[i].step = "ensure_world"
                /\ log[i].calls = <<MkCall("upgrade_world", "world", WorldClass, "none")>>
                /\ \/ WorldClass \in start.declared
                   \/ \E j \in 1..(i - 1) : WorldClass \in log[j].classes
          /\ Cardinality(Upgrades) <= 1
          /\ Completed("ensure_world") =>
                /\ \E i \in Upgrades : log[i].ok
                /\ changed.world /\ remote.world = "cur"
          /\ result.returned => result.has_changes
    /\ ~cfg.guest /\ diff.world = "Synced" =>
          /\ \A i \in DOMAIN log :
                /\ log[i].step # "ensure_world"
                /\ WorldClass \notin log[i].classes
                /\ ~HasCall(i, "upgrade_world") /\ ~HasCall(i, "deploy_world")
          /\ ~changed.world

\* a run declared the new world class, upgraded the world and returned
C26_Witness ==
    /\ ~cfg.guest /\ diff.world = "NewVersion" /\ WorldClass \notin start.declared
    /\ pc = "done" /\ result.has_changes
    /\ Len(log) >= 2 /\ WorldClass \in log[1].classes /\ 2 \in Upgrades

----------------------------------------------------------------------------
(* C27 *)

\* every resource of the diff is Synced
AllResourcesSynced == \A r \in Local : diff.res[r].status = "Synced"

\* C27: when every resource of the diff is Synced, the run issues no
\* operation of sync_resources (no declaration, no register-namespace,
\* register or upgrade call) and reports no change of the resources; it still
\* runs sync_permissions and initialize_contracts, which send the grants
\* declared locally and absent remotely and the init calls of the contracts
\* that are not initialized.
C27_StepGating ==
    AllResourcesSynced =>
        /\ \A i \in DOMAIN log :
              /\ log[i].step # "sync_resources"
              /\ log[i].step \in {"sync_permissions", "initialize_contracts"}
                    => log[i].classes = {}
              /\ \A k \in DOMAIN log[i].calls :
                    log[i].calls[k].fn \notin RegisterFns \cup UpgradeFns \cup {"register_namespace"}
        /\ ~changed.resources
        /\ Completed("sync_permissions") => GrantsAsExpected(CallsOf("sync_permissions"))
        /\ Completed("initialize_contracts") =>
              InitsAsExpected(CallsOf("initialize_contracts"))

\* on a diff whose resources are all Synced, a run granted an owner and
\* initialized a contract
C27_Witness ==
    /\ AllResourcesSynced /\ pc = "done"
    /\ \E i \in DOMAIN log : HasCall(i, "grant_owner")
    /\ \E i \in DOMAIN log : HasCall(i, "init_contract")

----------------------------------------------------------------------------
(* C28 *)

\* the transactions of step `S` that carry calls
Batches(S) == {i \in DOMAIN log : log[i].step = S /\ log[i].calls # <<>>}

\* with multicall enabled, the calls of every step go in one transaction
OneBatchPerStep ==
    DoMulticall(cfg) =>
        \A k \in DOMAIN StepNames :
            /\ Cardinality(Batches(StepNames[k])) <= 1
            /\ \A i \in Batches(StepNames[k]) : log[i].op \in {"multicall", "deploy"}

\* C28: when multicall is disabled in the configuration, no step of migrate,
\* ensure_world included, sends its calls through Invoker::multicall, and
\* every transaction carries one call; when it is enabled, the calls of each
\* step go in one transaction.
C28_BatchToggle ==
    /\ cfg.disable_multicall =>
          \A i \in DOMAIN log : log[i].calls # <<>> =>
              log[i].op # "multicall" /\ Len(log[i].calls) = 1
    /\ OneBatchPerStep

\* C28, amended: when multicall is disabled, sync_resources, sync_permissions,
\* initialize_contracts and sync_external_contracts send each call in its own
\* transaction and none through Invoker::multicall, while ensure_world, which
\* does not look at the flag, still sends the upgrade call of the world
\* through Invoker::multicall, as a transaction of that one call; when
\* multicall is enabled, the calls of each step go in one transaction.
C28_BatchToggleButWorldUpgrade ==
    /\ cfg.disable_multicall =>
          \A i \in DOMAIN log : log[i].calls # <<>> =>
              /\ Len(log[i].calls) = 1
              /\ log[i].step # "ensure_world" => log[i].op = "invoke"
              /\ HasCall(i, "upgrade_world") => log[i].op = "multicall"
    /\ OneBatchPerStep

\* without multicall, a run upgraded the world through Invoker::multicall and
\* then sent several grants, each in its own transaction
C28_Witness ==
    /\ cfg.disable_multicall /\ pc = "done"
    /\ \E i \in DOMAIN log : HasCall(i, "upgrade_world") /\ log[i].op = "multicall"
    /\ Cardinality(Batches("sync_permissions")) >= 2

----------------------------------------------------------------------------
(* C30 *)

\* in `calls` the calls outside the order list come first, every call is the
\* init call of an eligible contract, and once the step has completed there
\* are as many calls as eligible contracts
UnorderedBeforeOrderedIn(calls) ==
    /\ \A i, j \in DOMAIN calls :
          Place(calls[i]) = 0 /\ Place(calls[j]) > 0 => i < j
    /\ \A i \in DOMAIN calls :
          calls[i].fn = "init_contract" /\ ExpectedInits(calls[i].target) = 1
    /\ Completed("initialize_contracts") =>
          Len(calls) = Cardinality({r \in Res : ExpectedInits(r) = 1})

\* C30: in the sequence of the init calls initialize_contracts sends, every
\* call of a contract whose tag is not in the order list comes before every
\* call of a contract whose tag is in the list; every call sent is the init
\* call of an eligible contract, and once the step has completed the number
\* of calls is the number of eligible contracts, a tag of the list that is
\* not the tag of an eligible contract giving no call.
C30_UnorderedBeforeOrdered ==
    UnorderedBeforeOrderedIn(CallsOf("initialize_contracts"))

\* with an order list naming a tag that gives no call, initialize_contracts
\* sent the call of a contract that is not in the list and then that of a
\* contract that is
C30_Witness ==
    LET calls == CallsOf("initialize_contracts")
    IN /\ pc = "done" /\ Len(calls) = 2
       /\ Place(calls[1]) = 0 /\ Place(calls[2]) > 1
       /\ \E k \in DOMAIN cfg.order_inits :
             \A i \in DOMAIN calls : Tag(calls[i].target) # cfg.order_inits[k]

----------------------------------------------------------------------------
(* C29 *)

\* the declarers of sync_resources that published class `h`
PublishersOf(h) == {i \in DeclarersOf("sync_resources") : h \in log[i].classes}

\* two resources to register or upgrade whose artifacts have the same class hash
SharedClass(r, q) ==
    /\ r # q /\ {r, q} \subseteq Local
    /\ LocalClass(r) = LocalClass(q)
    /\ \A x \in {r, q} : /\ Kind(x) # "Namespace" /\ ~IsSkipped(cfg, Tag(x))
                         /\ diff.res[x].status \in {"Created", "Updated"}

\* C29: whatever the order in which sync_resources goes through the
\* resources, the classes map it hands to declare_classes holds each class
\* hash once, and holds the class of every resource to register or upgrade;
\* no class is published by two declarers of the step, a class that was not
\* declared is published exactly once when the declarers succeed, and each of
\* the resources that share a class has its own register or upgrade call.
C29_Deduplication ==
    /\ pc = "sync_resources" /\ SyncResourcesPanics(cfg, diff) = {} =>
          \A ord \in Perms(Local) :
              LET m == SyncResourcesClassMap(cfg, diff, ord)
              IN /\ \A i, j \in DOMAIN m : i # j => m[i] # m[j]
                 /\ {m[i] : i \in DOMAIN m} = ClassesToPublish
    /\ \A h \in ClassesToPublish : Cardinality(PublishersOf(h)) <= 1
    /\ AllPublishedBy("sync_resources") =>
          \A h \in ClassesToPublish : Cardinality(PublishersOf(h)) = 1
    /\ pc = "sync_resources_invoke" =>
          \A r, q \in Res : SharedClass(r, q) =>
              /\ CollectedFor(r) = ExpectedCalls(r) /\ Len(CollectedFor(r)) = 1
              /\ CollectedFor(q) = ExpectedCalls(q) /\ Len(CollectedFor(q)) = 1

\* two contracts that share a class were both to register; the class was
\* published once and each contract has its register call
C29_Witness ==
    /\ AllPublishedBy("sync_resources")
    /\ \E r, q \in Res :
          /\ SharedClass(r, q)
          /\ diff.res[r].status = "Created" /\ diff.res[q].status = "Created"
          /\ Cardinality(PublishersOf(LocalClass(r))) = 1
          /\ Len(CollectedFor(r)) = 1 /\ Len(CollectedFor(q)) = 1

====
